---- MODULE Spec2Model ----
(***************************************************************************)
(* Model of src/src/App.vue (script section): the reactive refs, the       *)
(* computed `stats`, the async handler `handleFile` and `reset`.           *)
(*                                                                         *)
(* A text is a JavaScript string: a sequence of UTF-16 code units          *)
(* (naturals below 65536).  A supplementary-plane code point is stored as  *)
(* two units, a high surrogate followed by a low surrogate.                *)
(***************************************************************************)
EXTENDS Integers, Sequences, FiniteSets, TLC

VARIABLES
    isLoading,     \* ref<boolean>, line 25
    fileName,      \* ref<string>,  line 26
    pdfText,       \* ref<string>,  line 27 (sequence of code units)
    errorMessage,  \* ref<string>,  line 28
    calls,         \* the handleFile invocations: position, file, loop locals
    textFile,      \* history: the file whose extraction produced pdfText
    cleared        \* history: reset has run and no PDF load was started since

vars == <<isLoading, fileName, pdfText, errorMessage, calls, textFile, cleared>>

-----------------------------------------------------------------------------
(* Bounds *)

\* number of handleFile invocations that can be suspended at the same time
MaxCalls == 2

\* longest page text, in code units, of the documents of the statistics runs
MaxLen == 2

-----------------------------------------------------------------------------
(* Code units used by the source *)

\* '\n', appended after every page (line 102) and matched by /\n/g (line 58)
LF == 10

PdfType == "application/pdf"

\* line 80: the upload-a-PDF message (ASCII rendering of the source text)
MsgNotPdf == "Please upload a PDF file"

\* line 108: the parsing-failed message (ASCII rendering of the source text)
MsgParseFailed == "PDF parsing failed, make sure the file is not corrupted"

-----------------------------------------------------------------------------
(* The character classes of the regular expressions of `stats`.  None of   *)
(* the expressions carries the u flag, so each class is matched against    *)
(* single UTF-16 code units.                                               *)

\* the class range lo-hi
Range(lo, hi) == lo..hi

\* line 37.  Without the u flag an escape \uXXXX takes exactly four hex
\* digits, so the source text \u20000-\u2a6df is three atoms: the unit
\* U+2000, the range from "0" (U+0030) to U+2A6D, and the letter "f"; the
\* same holds for every five-digit escape of the class.  The atoms, in
\* source order:
ChineseCharClass ==
    Range(\H4E00, \H9FFF)                \* \u4e00-\u9fff
    \cup Range(\H3400, \H4DBF)           \* \u3400-\u4dbf
    \cup {\H2000}                        \* \u2000
    \cup Range(\H30, \H2A6D)             \* 0-\u2a6d
    \cup {\H66}                          \* f
    \cup {\H2A70}                        \* \u2a70
    \cup Range(\H30, \H2B73)             \* 0-\u2b73
    \cup {\H66}                          \* f
    \cup {\H2B74}                        \* \u2b74
    \cup Range(\H30, \H2B81)             \* 0-\u2b81
    \cup {\H66}                          \* f
    \cup {\H2B82}                        \* \u2b82
    \cup Range(\H30, \H2CEA)             \* 0-\u2cea
    \cup {\H66}                          \* f
    \cup Range(\HF900, \HFAFF)           \* \uf900-\ufaff
    \cup {\H2F80}                        \* \u2f80
    \cup Range(\H30, \H2FA1)             \* 0-\u2fa1
    \cup {\H66}                          \* f

\* lines 40 and 43: [a-zA-Z]
LetterClass == Range(\H61, \H7A) \cup Range(\H41, \H5A)

\* line 46: [0-9]
DigitClass == Range(\H30, \H39)

\* line 49: the characters between the brackets, as they stand in the file
\* (its four quote characters are the ASCII U+0022 twice and U+0027 twice)
ChinesePunctuationClass ==
    { \HFF0C, \H3002, \HFF01, \HFF1F, \H3001, \HFF1B, \HFF1A,
      \H22, \H27, \HFF08, \HFF09, \H3010, \H3011, \H300A, \H300B,
      \H2026, \H2014, \HFF5E, \HB7 }

\* line 52: the 32 ASCII punctuation characters of the class
EnglishPunctuationClass ==
    { \H2C, \H2E, \H21, \H3F, \H3B, \H3A, \H27, \H22, \H28, \H29,
      \H5B, \H5D, \H7B, \H7D, \H3C, \H3E, \H2F, \H5C, \H40, \H23,
      \H24, \H25, \H5E, \H26, \H2A, \H2D, \H5F, \H2B, \H3D, \H7C,
      \H60, \H7E }

\* lines 55 and 61: \s (ECMAScript WhiteSpace and LineTerminator)
WhitespaceClass ==
    { \H09, \H0A, \H0B, \H0C, \H0D, \H20, \HA0, \H1680,
      \H2028, \H2029, \H202F, \H205F, \H3000, \HFEFF }
    \cup Range(\H2000, \H200A)

\* line 58: \n
LineBreakClass == {LF}

-----------------------------------------------------------------------------
(* String operations *)

\* text.match(/[class]/g): one match per code unit of the class
MatchUnits(text, class) ==
    Cardinality({ k \in 1..Len(text) : text[k] \in class })

\* text.match(/[class]+/g): one match per maximal run of units of the class
MatchRuns(text, class) ==
    Cardinality({ k \in 1..Len(text) :
                    /\ text[k] \in class
                    /\ (k = 1 \/ text[k - 1] \notin class) })

NotWhitespace(u) == u \notin WhitespaceClass

\* text.replace(/\s/g, ''), line 61
StripWhitespace(text) == SelectSeq(text, NotWhitespace)

\* mutant of SpacesMatch: the pattern / /g, which matches the space only
SpacesMatchSpaceOnly(text) == MatchUnits(text, {\H20})

\* text.match(/\s/g) || [], line 55 (its length)
SpacesMatch(text) == MatchUnits(text, WhitespaceClass)

\* text.length, line 72: the number of UTF-16 code units
Length(text) == Len(text)

-----------------------------------------------------------------------------
(* The computed `stats`, lines 31-75 *)

\* the value null of the computed
Null == [absent |-> TRUE]

\* mutant of StatsOf: the guard of line 32 is missing
StatsOfNoGuard(text) ==
    [ chineseChars       |-> MatchUnits(text, ChineseCharClass),
      englishWords       |-> MatchRuns(text, LetterClass),
      englishLetters     |-> MatchUnits(text, LetterClass),
      numbers            |-> MatchUnits(text, DigitClass),
      chinesePunctuation |-> MatchUnits(text, ChinesePunctuationClass),
      englishPunctuation |-> MatchUnits(text, EnglishPunctuationClass),
      spaces             |-> SpacesMatch(text),
      lineBreaks         |-> MatchUnits(text, LineBreakClass),
      totalChars         |-> Length(text),
      totalCharsNoSpace  |-> Len(StripWhitespace(text)) ]

\* the getter of the computed applied to a value of pdfText
StatsOf(text) ==
    IF text = <<>>                                 \* line 32: !pdfText.value
    THEN Null
    ELSE [ chineseChars       |-> MatchUnits(text, ChineseCharClass),
           englishWords       |-> MatchRuns(text, LetterClass),
           englishLetters     |-> MatchUnits(text, LetterClass),
           numbers            |-> MatchUnits(text, DigitClass),
           chinesePunctuation |-> MatchUnits(text, ChinesePunctuationClass),
           englishPunctuation |-> MatchUnits(text, EnglishPunctuationClass),
           spaces             |-> SpacesMatch(text),
           lineBreaks         |-> MatchUnits(text, LineBreakClass),
           totalChars         |-> Length(text),
           totalCharsNoSpace  |-> Len(StripWhitespace(text)) ]

\* stats.value in the current state
stats == StatsOf(pdfText)

-----------------------------------------------------------------------------
(* Files and documents.  A File has a name, a MIME type and, when pdf.js   *)
(* can read it, pages; a page is the `items` array of its getTextContent() *)
(* result: a TextItem has the field str, a TextMarkedContent has not.      *)

\* the absence of a file (null / undefined)
NoFile == [name |-> "", type |-> "", pages |-> <<>>]

TextItemOf(t) == [str |-> t]
MarkedContent == [type |-> "beginMarkedContent"]

\* two pages, "A" and "B"
FileA == [name |-> "a.pdf", type |-> PdfType,
          pages |-> << <<TextItemOf(<<\H41>>)>>, <<TextItemOf(<<\H42>>)>> >>]

\* one page of two text items (U+4E16, U+754C) around a marked-content item
FileB == [name |-> "b.pdf", type |-> PdfType,
          pages |-> << <<TextItemOf(<<\H4E16>>), MarkedContent,
                         TextItemOf(<<\H754C>>)>> >>]

\* a document of zero pages
FileEmpty == [name |-> "empty.pdf", type |-> PdfType, pages |-> <<>>]

\* not a PDF
FileTxt == [name |-> "notes.txt", type |-> "text/plain", pages |-> <<>>]

Files == {FileA, FileB, FileEmpty, FileTxt}

\* code units of the page texts of the statistics runs: tab, LF, space,
\* "!", "1", "H", U+2003 (em space), U+3000 (ideographic space), U+4E16,
\* and a high and a low surrogate (U+20000 is stored as D840 DC00)
Alphabet == { \H09, \H0A, \H20, \H21, \H31, \H48, \H2003, \H3000,
              \H4E16, \HD840, \HDC00 }

RECURSIVE TextsOfLen(_)
TextsOfLen(n) ==
    IF n = 0 THEN {<<>>}
    ELSE { Append(t, u) : t \in TextsOfLen(n - 1), u \in Alphabet }

Texts == UNION { TextsOfLen(n) : n \in 0..MaxLen }

\* "Hello ", U+4E16 U+754C, ", 123!"
HelloItems ==
    << TextItemOf(<<\H48, \H65, \H6C, \H6C, \H6F, \H20>>),
       TextItemOf(<<\H4E16, \H754C>>),
       TextItemOf(<<\H2C, \H20, \H31, \H32, \H33, \H21>>) >>

\* the documents of the statistics runs: one page holding one text item,
\* for every text over Alphabet up to MaxLen units, and the Hello page
StatsFiles ==
    { [name |-> "a.pdf", type |-> PdfType, pages |-> << <<TextItemOf(t)>> >>]
        : t \in Texts }
    \cup { [name |-> "hello.pdf", type |-> PdfType, pages |-> <<HelloItems>>] }

\* pdf.numPages
NumPages(file) == Len(file.pages)

RECURSIVE JoinStr(_)
\* lines 98-101: items.filter('str' in item).map(item => item.str).join('')
JoinStr(items) ==
    IF items = <<>> THEN <<>>
    ELSE IF "str" \in DOMAIN Head(items)
         THEN Head(items).str \o JoinStr(Tail(items))
         ELSE JoinStr(Tail(items))

\* mutant of AppendPage: the line break is not appended
AppendPageNoBreak(fullText, pageText) == fullText \o pageText

\* line 102: fullText += pageText + '\n'
AppendPage(fullText, pageText) == fullText \o pageText \o <<LF>>

-----------------------------------------------------------------------------
(* The state machine.  A handleFile invocation runs from one await to the  *)
(* next without interruption; calls[c].pc names the await it is suspended  *)
(* at, or how it ended.                                                    *)

CallIds == 1..MaxCalls

\* the awaits of lines 90, 91, 96, 97
Awaiting == {"arrayBuffer", "getDocument", "getPage", "getTextContent"}

\* no invocation occupies the slot, or the invocation has returned
Settled == {"idle", "done", "failed"}

IdleCall == [pc |-> "idle", file |-> NoFile, i |-> 0, fullText |-> <<>>]

\* the invocation c after it returned; i is kept as it was at the return
Ended(c, how, i) ==
    [pc |-> how, file |-> calls[c].file, i |-> i, fullText |-> <<>>]

\* lines 24-28
Init ==
    /\ isLoading = FALSE
    /\ fileName = ""
    /\ pdfText = <<>>
    /\ errorMessage = ""
    /\ calls = [c \in CallIds |-> IdleCall]
    /\ textFile = NoFile
    /\ cleared = FALSE

\* mutant of handleFileReject: the rejected call also drops the current text
handleFileRejectClearing(file) ==
    /\ (file = NoFile \/ file.type # PdfType)
    /\ errorMessage' = MsgNotPdf
    /\ pdfText' = <<>>
    /\ textFile' = NoFile
    /\ UNCHANGED <<isLoading, fileName, calls, cleared>>

\* lines 79-82: handleFile with no file or a file that is not a PDF
handleFileReject(file) ==
    /\ (file = NoFile \/ file.type # PdfType)
    /\ errorMessage' = MsgNotPdf
    /\ UNCHANGED <<isLoading, fileName, pdfText, calls, textFile, cleared>>

\* lines 79-90: handleFile with a PDF, up to its first await
handleFileBegin(c, file) ==
    /\ ~(file = NoFile \/ file.type # PdfType)
    /\ calls[c].pc \in Settled
    /\ errorMessage' = ""
    /\ isLoading' = TRUE
    /\ fileName' = file.name
    /\ pdfText' = <<>>
    /\ calls' = [calls EXCEPT ![c] =
                    [pc |-> "arrayBuffer", file |-> file, i |-> 0,
                     fullText |-> <<>>]]
    /\ textFile' = NoFile
    /\ cleared' = FALSE

\* lines 95-111 from the loop test on, with the locals i and fullText: the
\* next page is requested, or the text is published and the call returns
LoopTest(c, i, fullText) ==
    IF i <= NumPages(calls[c].file)
    THEN /\ calls' = [calls EXCEPT ![c] =
                        [pc |-> "getPage", file |-> calls[c].file, i |-> i,
                         fullText |-> fullText]]
         /\ UNCHANGED <<isLoading, fileName, pdfText, errorMessage,
                        textFile, cleared>>
    ELSE /\ pdfText' = fullText                          \* line 105
         /\ isLoading' = FALSE                           \* line 110
         /\ calls' = [calls EXCEPT ![c] = Ended(c, "done", i)]
         /\ textFile' = calls[c].file
         /\ UNCHANGED <<fileName, errorMessage, cleared>>

\* line 90: file.arrayBuffer() is fulfilled; line 91 starts getDocument
arrayBufferResolved(c) ==
    /\ calls[c].pc = "arrayBuffer"
    /\ calls' = [calls EXCEPT ![c].pc = "getDocument"]
    /\ UNCHANGED <<isLoading, fileName, pdfText, errorMessage, textFile,
                   cleared>>

\* line 91 is fulfilled; lines 93-95 (or 105-111 for a document of no page)
getDocumentResolved(c) ==
    /\ calls[c].pc = "getDocument"
    /\ LoopTest(c, 1, <<>>)

\* line 96: pdf.getPage(i) is fulfilled; line 97 starts getTextContent
getPageResolved(c) ==
    /\ calls[c].pc = "getPage"
    /\ calls' = [calls EXCEPT ![c].pc = "getTextContent"]
    /\ UNCHANGED <<isLoading, fileName, pdfText, errorMessage, textFile,
                   cleared>>

\* line 97 is fulfilled; lines 98-102, i++, and the loop test
getTextContentResolved(c) ==
    /\ calls[c].pc = "getTextContent"
    /\ LoopTest(c, calls[c].i + 1,
                AppendPage(calls[c].fullText,
                           JoinStr(calls[c].file.pages[calls[c].i])))

\* mutant of awaitRejected: the catch block publishes the pages read so far
awaitRejectedPartial(c) ==
    /\ calls[c].pc \in Awaiting
    /\ pdfText' = calls[c].fullText
    /\ errorMessage' = MsgParseFailed
    /\ isLoading' = FALSE
    /\ calls' = [calls EXCEPT ![c] = Ended(c, "failed", calls[c].i)]
    /\ UNCHANGED <<fileName, textFile, cleared>>

\* any of the awaits of lines 90-97 is rejected; lines 106-111
awaitRejected(c) ==
    /\ calls[c].pc \in Awaiting
    /\ errorMessage' = MsgParseFailed
    /\ isLoading' = FALSE
    /\ calls' = [calls EXCEPT ![c] = Ended(c, "failed", calls[c].i)]
    /\ UNCHANGED <<fileName, pdfText, textFile, cleared>>

\* lines 139-143
reset ==
    /\ fileName' = ""
    /\ pdfText' = <<>>
    /\ errorMessage' = ""
    /\ textFile' = NoFile
    /\ cleared' = TRUE
    /\ UNCHANGED <<isLoading, calls>>

\* lines 115-119 and 131-136: the user hands a file of Files to handleFile
Next ==
    \/ \E file \in Files : handleFileReject(file)
    \/ \E c \in CallIds, file \in Files : handleFileBegin(c, file)
    \/ \E c \in CallIds : arrayBufferResolved(c)
    \/ \E c \in CallIds : getDocumentResolved(c)
    \/ \E c \in CallIds : getPageResolved(c)
    \/ \E c \in CallIds : getTextContentResolved(c)
    \/ \E c \in CallIds : awaitRejected(c)
    \/ reset

Spec == Init /\ [][Next]_vars

\* a user who waits for a load to end before choosing the next file, of
\* StatsFiles; every document is readable
NoCallAwaiting == \A c \in CallIds : calls[c].pc \notin Awaiting

handleFileBeginStats ==
    /\ NoCallAwaiting
    /\ \E file \in StatsFiles : handleFileBegin(1, file)

NextStats ==
    \/ handleFileBeginStats
    \/ arrayBufferResolved(1)
    \/ getDocumentResolved(1)
    \/ getPageResolved(1)
    \/ getTextContentResolved(1)
    \/ reset

SpecStats == Init /\ [][NextStats]_vars

-----------------------------------------------------------------------------
(* Code points, for the properties stated over them *)

IsHighSurrogate(u) == u \in \HD800..\HDBFF
IsLowSurrogate(u) == u \in \HDC00..\HDFFF

\* whether a surrogate pair starts at position k of text
PairAt(text, k) ==
    /\ k < Len(text)
    /\ IsHighSurrogate(text[k])
    /\ IsLowSurrogate(text[k + 1])

RECURSIVE CodePointsFrom(_, _)
\* the code points of text from position k on (an unpaired surrogate is a
\* code point of its own, as in String.prototype[Symbol.iterator])
CodePointsFrom(text, k) ==
    IF k > Len(text) THEN <<>>
    ELSE IF PairAt(text, k)
         THEN <<65536 + (text[k] - 55296) * 1024 + (text[k + 1] - 56320)>>
                \o CodePointsFrom(text, k + 2)
         ELSE <<text[k]>> \o CodePointsFrom(text, k + 1)

CodePoints(text) == CodePointsFrom(text, 1)

\* the eight closed ranges of ideographs
Ideographs ==
    (\H4E00..\H9FFF) \cup (\H3400..\H4DBF) \cup (\H20000..\H2A6DF)
    \cup (\H2A700..\H2B73F) \cup (\H2B740..\H2B81F) \cup (\H2B820..\H2CEAF)
    \cup (\HF900..\HFAFF) \cup (\H2F800..\H2FA1F)

IsIdeograph(cp) == cp \in Ideographs

IdeographCount(text) == MatchUnits(CodePoints(text), Ideographs)

\* the units of text that do not belong to a surrogate pair encoding a
\* supplementary-plane ideograph
IsSupplementaryIdeographAt(text, k) ==
    /\ PairAt(text, k)
    /\ IsIdeograph(65536 + (text[k] - 55296) * 1024 + (text[k + 1] - 56320))

SupplementaryIdeographs(text) ==
    Cardinality({ k \in 1..Len(text) : IsSupplementaryIdeographAt(text, k) })

RECURSIVE WithoutSupplementaryFrom(_, _)
WithoutSupplementaryFrom(text, k) ==
    IF k > Len(text) THEN <<>>
    ELSE IF IsSupplementaryIdeographAt(text, k)
         THEN WithoutSupplementaryFrom(text, k + 2)
         ELSE <<text[k]>> \o WithoutSupplementaryFrom(text, k + 1)

WithoutSupplementary(text) == WithoutSupplementaryFrom(text, 1)

RECURSIVE Assembled(_)
\* p1 + LF + p2 + LF + ... + pn + LF
Assembled(pageTexts) ==
    IF pageTexts = <<>> THEN <<>>
    ELSE Head(pageTexts) \o <<LF>> \o Assembled(Tail(pageTexts))

\* the texts of the pages of a file, in page order
PageTexts(file) == [k \in 1..NumPages(file) |-> JoinStr(file.pages[k])]

ZeroCounts ==
    [ chineseChars |-> 0, englishWords |-> 0, englishLetters |-> 0,
      numbers |-> 0, chinesePunctuation |-> 0, englishPunctuation |-> 0,
      spaces |-> 0, lineBreaks |-> 0, totalChars |-> 0,
      totalCharsNoSpace |-> 0 ]

\* "Hello ", U+4E16, U+754C, ", 123!", and the line break after the page
HelloText ==
    <<\H48, \H65, \H6C, \H6C, \H6F, \H20, \H4E16, \H754C, \H2C, \H20,
      \H31, \H32, \H33, \H21, LF>>

-----------------------------------------------------------------------------
(* Properties *)

\* C1: whenever stats is non-null, the text it is computed from was
\* extracted from the file whose name is in fileName.
C1_NameMatchesCounts ==
    stats # Null => (textFile # NoFile /\ textFile.name = fileName)

\* C2: after reset, and until a handleFile call with a PDF is started, the
\* text is empty and stats is null.
C2_ClearedStaysCleared ==
    cleared => (pdfText = <<>> /\ stats = Null)

\* C3: chineseChars is the number of code points of the text that lie in
\* the eight closed ideograph ranges (2 for the Hello text).
C3_IdeographCount ==
    stats # Null => stats.chineseChars = IdeographCount(pdfText)

\* C4: every supplementary-plane ideograph of the text adds exactly 1 to
\* chineseChars and exactly 1 to totalChars.
C4_SupplementaryCountsOnce ==
    LET rest == WithoutSupplementary(pdfText)
        n == SupplementaryIdeographs(pdfText)
    IN  (stats # Null /\ StatsOf(rest) # Null) =>
           /\ stats.chineseChars = StatsOf(rest).chineseChars + n
           /\ stats.totalChars = StatsOf(rest).totalChars + n

\* C5 as stated: an empty text produced by a load gives the all-zero
\* record.
C5_EmptyTextAllZero ==
    (textFile # NoFile /\ pdfText = <<>>) => stats = ZeroCounts

\* C5 as amended: stats is null exactly when the text is empty, also when
\* the empty text is the result of a load; a record is never all-zero.
C5_EmptyTextIsAbsent ==
    /\ (pdfText = <<>>) <=> (stats = Null)
    /\ stats # ZeroCounts

C5_Witness ==
    /\ textFile = FileEmpty
    /\ pdfText = <<>>
    /\ calls[1].pc = "done"

\* C6: totalCharsNoSpace = totalChars - spaces.
C6_NoSpaceIsTotalMinusSpaces ==
    stats # Null => stats.totalCharsNoSpace = stats.totalChars - stats.spaces

\* a text with an ideographic space, a tab, a letter and the page's break
C6_Witness ==
    /\ pdfText = <<\H3000, \H48, LF>>
    /\ stats.spaces = 2
    /\ stats.totalCharsNoSpace = 1

\* C7: a call whose await is rejected leaves pdfText as it was and sets the
\* parsing-failed message; pdfText receives a non-empty text only from a
\* call that has just read its last page, and then the text of all pages.
C7_AllOrNothing ==
    [][ /\ \A c \in CallIds :
             (calls[c].pc \in Awaiting /\ calls'[c].pc = "failed") =>
                (pdfText' = pdfText /\ errorMessage' = MsgParseFailed)
        /\ (pdfText' # pdfText /\ pdfText' # <<>>) =>
             \E c \in CallIds :
                /\ calls[c].pc = "getTextContent"
                /\ calls[c].i = NumPages(calls[c].file)
                /\ calls'[c].pc = "done"
                /\ pdfText' = Assembled(PageTexts(calls[c].file)) ]_vars

\* the load of FileA failed at its second page, after the first was read
C7_Witness ==
    /\ calls[1].pc = "failed"
    /\ calls[1].file = FileA
    /\ calls[1].i = 2
    /\ pdfText = <<>>
    /\ errorMessage = MsgParseFailed

\* C8: the text published by a load is p1 + LF + ... + pn + LF for the page
\* texts p1..pn of the file in page order (empty for zero pages).
C8_AssembledInOrder ==
    textFile # NoFile => pdfText = Assembled(PageTexts(textFile))

C8_Witness ==
    /\ textFile = FileA
    /\ pdfText = <<\H41, LF, \H42, LF>>

\* C9: a step that sets the upload-a-PDF message changes neither pdfText,
\* fileName, isLoading nor any call, and no call ever extracts a file that
\* is not a PDF.
C9_RejectedFileChangesNothing ==
    /\ [][ (errorMessage' = MsgNotPdf /\ errorMessage # MsgNotPdf) =>
             UNCHANGED <<pdfText, fileName, isLoading, calls, textFile>> ]_vars
    /\ [](\A c \in CallIds :
             calls[c].pc # "idle" => calls[c].file.type = PdfType)

\* a file was rejected while a text is shown and another load is in flight
C9_Witness ==
    /\ errorMessage = MsgNotPdf
    /\ stats # Null
    /\ \E c \in CallIds : calls[c].pc \in Awaiting

\* C10: isLoading is true whenever a handleFile call is suspended at one of
\* its awaits.
C10_LoadingWhileInFlight ==
    (\E c \in CallIds : calls[c].pc \in Awaiting) => isLoading

====
